---- MODULE Spec2Model ----
(***************************************************************************)
(* DHCP reservation list handling of minecraftManager:                     *)
(*   router-service/app.py   the codec (_parse_staticlist,                 *)
(*                           _format_staticlist) and the single add/update *)
(*                           (_add_reservation) behind POST                *)
(*                           /dhcp-reservation                             *)
(*   restore_all_dhcp.py     the bulk restore (restore_dhcp)               *)
(* Strings are sequences of one-character strings, so that split, strip,   *)
(* upper, startswith and the substring test act as they do in Python.      *)
(***************************************************************************)
EXTENDS Integers, Sequences, FiniteSets, TLC

VARIABLES
    nvram,      \* the router's stored dhcp_staticlist string
    nvram0,     \* the string stored before any operation ran (history)
    req,        \* per Flask worker: the add/update request it is serving
    servers,    \* the restore script's SERVERS_TO_RESTORE
    rst,        \* the restore script's run
    nops,       \* operations started so far
    cpc,        \* codec round trip: position
    recs,       \* codec round trip: the records given to _format_staticlist
    encoded,    \* codec round trip: _format_staticlist's result
    decoded     \* codec round trip: _parse_staticlist's result

vars == <<nvram, nvram0, req, servers, rst, nops, cpc, recs, encoded, decoded>>

(***************************************************************************)
(* Bounds of the model.                                                    *)
(***************************************************************************)
MaxInit == 2        \* records in the initially stored list
MaxOps == 2         \* operations (add/update requests, restore runs) started
MaxServers == 2     \* candidates in the restore script's server list
MaxRecs == 2        \* records in a codec round trip
MaxRaw == 5         \* characters in a raw string given to the Decoder

(***************************************************************************)
(* Python's str operations.                                                *)
(***************************************************************************)
TAB == "\t"
NL == "\n"
SPACE == " "
COLON == ":"
SEMI == ";"
LT == "<"
GT == ">"

Whitespace == {SPACE, TAB, NL}

LowerLetters == <<"a", "b", "c", "d", "e", "f", "n", "s", "w">>
UpperLetters == <<"A", "B", "C", "D", "E", "F", "N", "S", "W">>

UpperChar(c) ==
    IF \E k \in 1..Len(LowerLetters) : LowerLetters[k] = c
    THEN UpperLetters[CHOOSE k \in 1..Len(LowerLetters) : LowerLetters[k] = c]
    ELSE c

LowerChar(c) ==
    IF \E k \in 1..Len(UpperLetters) : UpperLetters[k] = c
    THEN LowerLetters[CHOOSE k \in 1..Len(UpperLetters) : UpperLetters[k] = c]
    ELSE c

Upper(s) == [i \in 1..Len(s) |-> UpperChar(s[i])]

Lower(s) == [i \in 1..Len(s) |-> LowerChar(s[i])]

MinOf(S) == CHOOSE i \in S : \A j \in S : i <= j

MaxOf(S) == CHOOSE i \in S : \A j \in S : i >= j

\* s.strip()
Strip(s) ==
    LET keep == {i \in 1..Len(s) : s[i] \notin Whitespace}
    IN  IF keep = {} THEN <<>> ELSE SubSeq(s, MinOf(keep), MaxOf(keep))

\* c in s, for a one-character c
Contains(s, c) == \E i \in 1..Len(s) : s[i] = c

\* s.count(c)
Count(s, c) == Cardinality({i \in 1..Len(s) : s[i] = c})

\* sub in s
InStr(sub, s) ==
    \E i \in 0..(Len(s) - Len(sub)) : SubSeq(s, i + 1, i + Len(sub)) = sub

\* s.startswith(p)
StartsWith(s, p) == Len(p) <= Len(s) /\ SubSeq(s, 1, Len(p)) = p

\* s.split(sep), for a one-character sep: "".split(sep) is [""]
RECURSIVE Split(_, _)
Split(s, sep) ==
    LET at == {i \in 1..Len(s) : s[i] = sep}
    IN  IF at = {} THEN <<s>>
        ELSE LET i == MinOf(at)
             IN  <<SubSeq(s, 1, i - 1)>> \o Split(SubSeq(s, i + 1, Len(s)), sep)

\* sep.join(parts)
RECURSIVE Join(_, _)
Join(parts, sep) ==
    IF parts = <<>> THEN <<>>
    ELSE IF Len(parts) = 1 THEN parts[1]
    ELSE parts[1] \o <<sep>> \o Join(Tail(parts), sep)

\* the concatenation of a sequence of sequences
RECURSIVE Flatten(_)
Flatten(ss) == IF ss = <<>> THEN <<>> ELSE ss[1] \o Flatten(Tail(ss))

\* f"{mac}:{ip}:{name}"
Entry(mac, ip, name) == mac \o <<COLON>> \o ip \o <<COLON>> \o name

Rec(mac, ip, name) == [mac |-> mac, ip |-> ip, name |-> name]

(***************************************************************************)
(* _parse_staticlist: the Decoder.                                         *)
(***************************************************************************)
\* one entry of the <MAC>IP>NAME grammar: the records it appends (0 or 1)
BracketEntry(entry) ==
    IF entry = <<>> \/ Strip(entry) = <<>> THEN <<>>
    ELSE LET parts == Split(entry, GT)
         IN  IF Len(parts) >= 3
             THEN LET mac == Upper(Strip(parts[1]))
                      ip == Strip(parts[2])
                      name == Strip(parts[3])
                  IN  IF mac # <<>> /\ ip # <<>> THEN <<Rec(mac, ip, name)>> ELSE <<>>
             ELSE <<>>

BracketRecords(raw) ==
    LET entries_raw == Split(raw, LT)
    IN  Flatten([i \in 1..Len(entries_raw) |-> BracketEntry(entries_raw[i])])

\* the record separator the colon grammar detects; "" stands for None
DetectSeparator(raw) ==
    IF Contains(raw, TAB) THEN TAB
    ELSE IF Contains(raw, SEMI) THEN SEMI
    ELSE IF Contains(raw, NL) THEN NL
    ELSE IF Contains(raw, SPACE) /\ Count(raw, SPACE) > Count(raw, COLON) THEN SPACE
    ELSE ""

\* one entry of the MAC:IP:NAME grammar: the records it appends (0 or 1)
ColonEntry(entry) ==
    IF entry = <<>> \/ Strip(entry) = <<>> THEN <<>>
    ELSE LET parts == Split(entry, COLON)
         IN  IF Len(parts) >= 2
             THEN LET mac == Upper(Strip(parts[1]))
                      ip == Strip(parts[2])
                      name == IF Len(parts) > 2 THEN Strip(parts[3]) ELSE <<>>
                  IN  IF mac # <<>> /\ ip # <<>> THEN <<Rec(mac, ip, name)>> ELSE <<>>
             ELSE <<>>

ColonRecords(raw) ==
    LET separator == DetectSeparator(raw)
        entries_raw == IF separator # "" THEN Split(raw, separator) ELSE <<raw>>
    IN  Flatten([i \in 1..Len(entries_raw) |-> ColonEntry(entries_raw[i])])

\* ParseStaticlist with the two grammars tried in the other order
ParseStaticlistColonFirst(raw) ==
    IF raw = <<>> \/ Strip(raw) = <<>> THEN <<>>
    ELSE LET colon == IF Contains(raw, COLON) THEN ColonRecords(raw) ELSE <<>>
         IN  IF colon # <<>> THEN colon
             ELSE IF Contains(raw, LT) /\ Contains(raw, GT) THEN BracketRecords(raw)
             ELSE <<>>

ParseStaticlist(raw) ==
    IF raw = <<>> \/ Strip(raw) = <<>> THEN <<>>
    ELSE LET bracket == IF Contains(raw, LT) /\ Contains(raw, GT)
                        THEN BracketRecords(raw) ELSE <<>>
         IN  IF bracket # <<>> THEN bracket
             ELSE IF Contains(raw, COLON) THEN ColonRecords(raw)
             ELSE <<>>

(***************************************************************************)
(* _format_staticlist: the Encoder.                                        *)
(***************************************************************************)
\* one record: the entries it appends (0 or 1)
FormatEntry(r) ==
    LET mac == Strip(r.mac)
        ip == Strip(r.ip)
        name == Strip(r.name)
    IN  IF mac = <<>> \/ ip = <<>> THEN <<>> ELSE <<Entry(mac, ip, name)>>

FormatStaticlist(reservations) ==
    IF reservations = <<>> THEN <<>>
    ELSE Join(Flatten([i \in 1..Len(reservations) |-> FormatEntry(reservations[i])]), TAB)

(***************************************************************************)
(* The strings of the model: MAC addresses, IP addresses and names.        *)
(***************************************************************************)
MacA == <<"A", "A", ":", "B", "B", ":", "C", "C", ":", "D", "D", ":", "E", "E", ":", "0", "1">>
MacALower == <<"a", "a", ":", "b", "b", ":", "c", "c", ":", "d", "d", ":", "e", "e", ":", "0", "1">>
MacB == <<"B", "C", ":", "2", "4", ":", "1", "1", ":", "A", "A", ":", "1", "D", ":", "2", "9">>
MacBLower == <<"b", "c", ":", "2", "4", ":", "1", "1", ":", "a", "a", ":", "1", "d", ":", "2", "9">>
MacC == <<"B", "C", ":", "2", "4", ":", "1", "1", ":", "8", "0", ":", "1", "8", ":", "3", "D">>
MacCLower == <<"b", "c", ":", "2", "4", ":", "1", "1", ":", "8", "0", ":", "1", "8", ":", "3", "d">>
Ip5 == <<"1", ".", "5">>
Ip6 == <<"1", ".", "6">>
Ip9 == <<"1", ".", "9">>
NameDns == <<"d", "n", "s">>
NameWeb == <<"w", "e", "b">>
Empty == <<>>
MacF == <<"A", "A", ":", "B", "B", ":", "C", "C", ":", "D", "D", ":", "E", "E", ":", "F", "F">>
Ip1685 == <<"1", "9", "2", ".", "1", "6", "8", ".", "1", ".", "5">>
NameDns01 == <<"d", "n", "s", "0", "1">>

SeqsUpTo(S, n) == UNION {[1..k -> S] : k \in 0..n}

(***************************************************************************)
(* What the router may hold before the program runs: a list in one of the  *)
(* grammars _parse_staticlist reads, a record of it possibly written in    *)
(* lower case or lacking its MAC.                                          *)
(***************************************************************************)
InitRecs ==
    {Rec(MacA, Ip5, NameWeb), Rec(MacALower, Ip5, NameWeb),
     Rec(MacB, Ip5, NameWeb), Rec(Empty, Ip6, NameWeb)}

\* MAC:IP:name records joined by sep
RenderColon(rs, sep) ==
    Join([i \in 1..Len(rs) |-> Entry(rs[i].mac, rs[i].ip, rs[i].name)], sep)

\* <MAC>IP>name records
RenderBracket(rs) ==
    Flatten([i \in 1..Len(rs) |->
        <<LT>> \o rs[i].mac \o <<GT>> \o rs[i].ip \o <<GT>> \o rs[i].name])

InitStrings ==
    UNION {{RenderColon(rs, TAB), RenderColon(rs, SEMI), RenderBracket(rs)} :
           rs \in SeqsUpTo(InitRecs, MaxInit)}

(***************************************************************************)
(* The router: nvram_get(dhcp_staticlist) answers with the stored string.  *)
(* A reply is [shape, value]: the place of the dhcp_staticlist key in the  *)
(* answer ("top", "nested" under nvram_get, "other" key containing the     *)
(* word, "none") and its value.                                            *)
(***************************************************************************)
RouterReply(stored) == [shape |-> "top", value |-> stored]

\* _extract_staticlist
ExtractStaticlist(data) ==
    IF data.shape \in {"top", "nested", "other"} THEN data.value ELSE <<>>

(***************************************************************************)
(* _add_reservation._update: the string it computes from the fetched one.  *)
(***************************************************************************)
ReplaceAt(seq, i, v) == [k \in 1..Len(seq) |-> IF k = i THEN v ELSE seq[k]]

\* UpdateRaw without the search for an existing entry: it always appends
UpdateRawAppendOnly(raw, mac, ip, name) ==
    IF raw # <<>>
    THEN raw \o <<TAB>> \o Entry(Upper(mac), ip, name)
    ELSE Entry(Upper(mac), ip, name)

UpdateRaw(raw, mac, ip, name) ==
    LET mac_normalized == Upper(mac)
        mac_search == mac_normalized \o <<COLON>>
        entries_raw == Split(raw, TAB)
        hits == {i \in 1..Len(entries_raw) : StartsWith(entries_raw[i], mac_search)}
    IN  IF InStr(mac_search, raw)
        THEN IF hits # {}
             THEN Join(ReplaceAt(entries_raw, MinOf(hits), Entry(mac_normalized, ip, name)), TAB)
             ELSE raw
        ELSE IF raw # <<>>
             THEN raw \o <<TAB>> \o Entry(mac_normalized, ip, name)
             ELSE Entry(mac_normalized, ip, name)

\* UpdateOutcome of an update that drops the entries of the MAC address,
\* does not put the new one in, and has no guard
UpdateOutcomeUnguarded(raw, mac, ip, name) ==
    LET mac_search == Upper(mac) \o <<COLON>>
        entries_raw == Split(raw, TAB)
    IN  [ok |-> TRUE,
         staticlist |-> Join(SelectSeq(entries_raw, LAMBDA e : ~StartsWith(e, mac_search)), TAB)]

\* the outcome of _update up to the write: the command's dhcp_staticlist, or
\* the ValueError of the empty-list guard
UpdateOutcome(raw, mac, ip, name) ==
    LET final == UpdateRaw(raw, mac, ip, name)
    IN  IF final = <<>> THEN [ok |-> FALSE, staticlist |-> <<>>]
        ELSE [ok |-> TRUE, staticlist |-> final]

(***************************************************************************)
(* restore_dhcp: parse, add the servers, format.                           *)
(***************************************************************************)
RestoreEntry(entry) ==
    IF entry # <<>> /\ Contains(entry, COLON)
    THEN LET parts == Split(entry, COLON)
         IN  IF Len(parts) >= 2
             THEN <<Rec(Upper(parts[1]), parts[2],
                        IF Len(parts) > 2 THEN parts[3] ELSE <<>>)>>
             ELSE <<>>
    ELSE <<>>

RestoreParse(current_raw) ==
    IF current_raw # <<>>
    THEN LET entries == Split(current_raw, TAB)
         IN  Flatten([i \in 1..Len(entries) |-> RestoreEntry(entries[i])])
    ELSE <<>>

\* RestoreOne without the skip of a candidate that has no MAC
RestoreOneNoSkip(acc, s) ==
    IF \E i \in 1..Len(acc.reservations) :
            \/ Lower(acc.reservations[i].mac) = Lower(s.mac)
            \/ acc.reservations[i].ip = s.ip
    THEN acc
    ELSE [acc EXCEPT !.reservations = Append(@, Rec(Upper(s.mac), s.ip, s.name)),
                     !.added_count = @ + 1]

\* one turn of the loop over SERVERS_TO_RESTORE
RestoreOne(acc, s) ==
    IF s.mac = <<>>
    THEN [acc EXCEPT !.skipped_count = @ + 1]
    ELSE IF \E i \in 1..Len(acc.reservations) :
                \/ Lower(acc.reservations[i].mac) = Lower(s.mac)
                \/ acc.reservations[i].ip = s.ip
         THEN acc
         ELSE [acc EXCEPT !.reservations = Append(@, Rec(Upper(s.mac), s.ip, s.name)),
                          !.added_count = @ + 1]

RECURSIVE RestoreLoop(_, _)
RestoreLoop(acc, todo) ==
    IF todo = <<>> THEN acc
    ELSE RestoreLoop(RestoreOne(acc, Head(todo)), Tail(todo))

RestoreFormat(reservations) ==
    Join([i \in 1..Len(reservations) |->
            Entry(reservations[i].mac, reservations[i].ip, reservations[i].name)], TAB)

\* restore_dhcp reads the key at the top level of the answer only
RestoreExtract(data) == IF data.shape = "top" THEN data.value ELSE <<>>

(***************************************************************************)
(* Inputs.                                                                 *)
(***************************************************************************)
Workers == {1, 2}

\* bodies of POST /dhcp-reservation
AddInputs ==
    {Rec(MacALower, Ip9, NameDns), Rec(MacB, Ip5, NameWeb), Rec(MacC, Ip9, Empty),
     Rec(Empty, Ip9, NameDns), Rec(MacC, Empty, NameDns)}

\* entries of the shape SERVERS_TO_RESTORE holds: lower-case MACs sharing
\* their first octets, and entries whose MAC is unknown
ServerCands ==
    {Rec(MacBLower, Ip9, NameDns), Rec(MacCLower, Ip5, NameWeb), Rec(Empty, Ip6, NameDns)}

ServerLists == SeqsUpTo(ServerCands, MaxServers)

\* reply: how the router answered the request's nvram_get ("" before it)
IdleReq == [pc |-> "idle", mac |-> <<>>, ip |-> <<>>, name |-> <<>>,
            reply |-> "", raw |-> <<>>, staticlist |-> <<>>]

IdleRst == [pc |-> "idle", reply |-> "", current_raw |-> <<>>, existing |-> 0,
            reservations |-> <<>>, added_count |-> 0, skipped_count |-> 0,
            staticlist |-> <<>>]

(***************************************************************************)
(* The program: two Flask workers serving POST /dhcp-reservation, and the  *)
(* restore script.  A coroutine runs from one await to the next in one     *)
(* step; the awaits are the router calls.                                  *)
(***************************************************************************)
Init ==
    /\ nvram \in InitStrings
    /\ nvram0 = nvram
    /\ req = [p \in Workers |-> IdleReq]
    /\ servers \in ServerLists
    /\ rst = IdleRst
    /\ nops = 0
    /\ cpc = "off"
    /\ recs = <<>>
    /\ encoded = <<>>
    /\ decoded = <<>>

CodecUnchanged == UNCHANGED <<cpc, recs, encoded, decoded>>

\* add_reservation up to the write: the request's checks, the fetch of the
\* stored string and the computation of the new one
AddFetch(p) ==
    /\ req[p].pc # "send"
    /\ nops < MaxOps
    /\ \E inp \in AddInputs :
         IF inp.mac = <<>> \/ inp.ip = <<>>
         THEN req' = [req EXCEPT ![p] =
                        [IdleReq EXCEPT !.pc = "rejected", !.mac = inp.mac,
                                        !.ip = inp.ip, !.name = inp.name]]
         ELSE LET raw == ExtractStaticlist(RouterReply(nvram))
                  out == UpdateOutcome(raw, inp.mac, inp.ip, inp.name)
              IN  req' = [req EXCEPT ![p] =
                            [pc |-> IF out.ok THEN "send" ELSE "error",
                             mac |-> inp.mac, ip |-> inp.ip, name |-> inp.name,
                             reply |-> "top",
                             raw |-> raw, staticlist |-> out.staticlist]]
    /\ nops' = nops + 1
    /\ UNCHANGED <<nvram, nvram0, servers, rst>>
    /\ CodecUnchanged

\* router.async_api_command(commands) of _update
AddSend(p) ==
    /\ req[p].pc = "send"
    /\ nvram' = req[p].staticlist
    /\ req' = [req EXCEPT ![p].pc = "done"]
    /\ UNCHANGED <<nvram0, servers, rst, nops>>
    /\ CodecUnchanged

\* restore_dhcp up to the write
RestoreFetch ==
    /\ rst.pc # "send"
    /\ nops < MaxOps
    /\ LET current_raw == RestoreExtract(RouterReply(nvram))
           parsed == RestoreParse(current_raw)
           acc == RestoreLoop([reservations |-> parsed, added_count |-> 0,
                               skipped_count |-> 0], servers)
       IN  rst' = [pc |-> "send", reply |-> "top", current_raw |-> current_raw,
                   existing |-> Len(parsed),
                   reservations |-> acc.reservations,
                   added_count |-> acc.added_count,
                   skipped_count |-> acc.skipped_count,
                   staticlist |-> RestoreFormat(acc.reservations)]
    /\ nops' = nops + 1
    /\ UNCHANGED <<nvram, nvram0, req, servers>>
    /\ CodecUnchanged

\* router.async_api_command(commands) of restore_dhcp
RestoreSend ==
    /\ rst.pc = "send"
    /\ nvram' = rst.staticlist
    /\ rst' = [rst EXCEPT !.pc = "done"]
    /\ UNCHANGED <<nvram0, req, servers, nops>>
    /\ CodecUnchanged

Next ==
    \/ \E p \in Workers : AddFetch(p)
    \/ \E p \in Workers : AddSend(p)
    \/ RestoreFetch
    \/ RestoreSend

Spec == Init /\ [][Next]_vars

(***************************************************************************)
(* The same program with a router whose nvram_get may fail: the call       *)
(* raises ("raise"), or its answer holds no dhcp_staticlist ("none").      *)
(***************************************************************************)
FailedReplies == {[shape |-> "none", value |-> <<>>], [shape |-> "raise", value |-> <<>>]}

\* add_reservation up to the write, the read of the stored string failing
AddFetchFailed(p) ==
    /\ req[p].pc # "send"
    /\ nops < MaxOps
    /\ \E inp \in AddInputs : \E data \in FailedReplies :
         /\ inp.mac # <<>> /\ inp.ip # <<>>
         /\ IF data.shape = "raise"
            THEN req' = [req EXCEPT ![p] =
                           [IdleReq EXCEPT !.pc = "error", !.mac = inp.mac, !.ip = inp.ip,
                                           !.name = inp.name, !.reply = data.shape]]
            ELSE LET raw == ExtractStaticlist(data)
                     out == UpdateOutcome(raw, inp.mac, inp.ip, inp.name)
                 IN  req' = [req EXCEPT ![p] =
                               [pc |-> IF out.ok THEN "send" ELSE "error",
                                mac |-> inp.mac, ip |-> inp.ip, name |-> inp.name,
                                reply |-> data.shape,
                                raw |-> raw, staticlist |-> out.staticlist]]
    /\ nops' = nops + 1
    /\ UNCHANGED <<nvram, nvram0, servers, rst>>
    /\ CodecUnchanged

\* restore_dhcp up to the write, the read of the stored string failing
RestoreFetchFailed ==
    /\ rst.pc # "send"
    /\ nops < MaxOps
    /\ \E data \in FailedReplies :
         IF data.shape = "raise"
         THEN rst' = [IdleRst EXCEPT !.pc = "error", !.reply = data.shape]
         ELSE LET current_raw == RestoreExtract(data)
                  parsed == RestoreParse(current_raw)
                  acc == RestoreLoop([reservations |-> parsed, added_count |-> 0,
                                      skipped_count |-> 0], servers)
              IN  rst' = [pc |-> "send", reply |-> data.shape,
                          current_raw |-> current_raw,
                          existing |-> Len(parsed),
                          reservations |-> acc.reservations,
                          added_count |-> acc.added_count,
                          skipped_count |-> acc.skipped_count,
                          staticlist |-> RestoreFormat(acc.reservations)]
    /\ nops' = nops + 1
    /\ UNCHANGED <<nvram, nvram0, req, servers>>
    /\ CodecUnchanged

NextFault ==
    \/ Next
    \/ \E p \in Workers : AddFetchFailed(p)
    \/ RestoreFetchFailed

SpecFault == Init /\ [][NextFault]_vars

(***************************************************************************)
(* The add/update service alone, and the restore script alone.             *)
(***************************************************************************)
InitAdd == Init /\ servers = <<>>

NextAdd ==
    \/ \E p \in Workers : AddFetch(p)
    \/ \E p \in Workers : AddSend(p)

SpecAdd == InitAdd /\ [][NextAdd]_vars

NextRestore == RestoreFetch \/ RestoreSend

SpecRestore == Init /\ [][NextRestore]_vars

(***************************************************************************)
(* The codec alone: _format_staticlist, then _parse_staticlist of its      *)
(* result, on sequences of well-formed records.                            *)
(***************************************************************************)
CodecRecs ==
    {Rec(m, i, n) : m \in {MacA, MacALower, MacB}, i \in {Ip5, Ip9}, n \in {Empty, NameDns}}

InitCodec ==
    /\ nvram = <<>>
    /\ nvram0 = <<>>
    /\ req = [p \in Workers |-> IdleReq]
    /\ servers = <<>>
    /\ rst = IdleRst
    /\ nops = 0
    /\ cpc = "start"
    /\ recs \in SeqsUpTo(CodecRecs, MaxRecs)
    /\ encoded = <<>>
    /\ decoded = <<>>

Encode ==
    /\ cpc = "start"
    /\ encoded' = FormatStaticlist(recs)
    /\ cpc' = "encoded"
    /\ UNCHANGED <<nvram, nvram0, req, servers, rst, nops, recs, decoded>>

Decode ==
    /\ cpc = "encoded"
    /\ decoded' = ParseStaticlist(encoded)
    /\ cpc' = "decoded"
    /\ UNCHANGED <<nvram, nvram0, req, servers, rst, nops, recs, encoded>>

NextCodec == Encode \/ Decode

SpecCodec == InitCodec /\ [][NextCodec]_vars

(***************************************************************************)
(* The Decoder alone, on raw strings that mix the characters of the two    *)
(* grammars: every string of at most MaxRaw characters of RawAlphabet, and *)
(* the <MAC>IP>name lists of at most MaxRecs records (recs remembers the   *)
(* records such a list was written from; it is empty for the others).      *)
(***************************************************************************)
RawAlphabet == {LT, GT, COLON, TAB, "a", "1"}

DecodeRecs == CodecRecs \cup {Rec(MacF, Ip1685, NameDns01)}

DecodeInputs ==
    {[recs |-> <<>>, raw |-> r] : r \in SeqsUpTo(RawAlphabet, MaxRaw)}
    \cup {[recs |-> rs, raw |-> RenderBracket(rs)] :
             rs \in SeqsUpTo(DecodeRecs, MaxRecs) \ {<<>>}}

InitDecode ==
    /\ nvram = <<>>
    /\ nvram0 = <<>>
    /\ req = [p \in Workers |-> IdleReq]
    /\ servers = <<>>
    /\ rst = IdleRst
    /\ nops = 0
    /\ cpc = "encoded"
    /\ \E inp \in DecodeInputs : recs = inp.recs /\ encoded = inp.raw
    /\ decoded = <<>>

SpecDecode == InitDecode /\ [][Decode]_vars

(***************************************************************************)
(* Notions the claims are stated in.                                       *)
(***************************************************************************)
\* a is b with some elements left out
RECURSIVE IsSubseq(_, _)
IsSubseq(a, b) ==
    IF a = <<>> THEN TRUE
    ELSE IF b = <<>> THEN FALSE
    ELSE IF a[1] = b[1] THEN IsSubseq(Tail(a), Tail(b))
    ELSE IsSubseq(a, Tail(b))

\* a string of the canonical grammar: records separated by tabs only
Canonical(s) == \A i \in 1..Len(s) : s[i] \notin {SEMI, LT, GT, NL, SPACE}

\* the tab-separated entries of a canonical string
Entries(s) == IF s = <<>> THEN <<>> ELSE Split(s, TAB)

\* the entries of s that carry the MAC address m, compared without case
MacEntries(s, m) ==
    {i \in 1..Len(Entries(s)) : StartsWith(Upper(Entries(s)[i]), Upper(m) \o <<COLON>>)}

KnownMacs == {MacA, MacB, MacC}

Served(p) == req[p].pc \in {"send", "done"}

Restored == rst.pc \in {"send", "done"}

(***************************************************************************)
(* C1  Single add/update never loses existing entries: when the Decoder    *)
(* reads the fetched string as a non-empty sequence E, the string          *)
(* _add_reservation writes decodes to a sequence that holds every record   *)
(* of E whose mac differs from the candidate's, unchanged and in the same  *)
(* order, and is at least as long as E.                                    *)
(***************************************************************************)
C1_NoEntryLost ==
    \A p \in Workers :
        Served(p) =>
            LET E == ParseStaticlist(req[p].raw)
                W == ParseStaticlist(req[p].staticlist)
                kept == SelectSeq(E, LAMBDA r : r.mac # Upper(req[p].mac))
            IN  E # <<>> => IsSubseq(kept, W) /\ Len(W) >= Len(E)

(***************************************************************************)
(* C2  Add-or-update postcondition, on a stored list of the canonical      *)
(* grammar: the written list holds the entry MAC:ip:name of the candidate  *)
(* (MAC upper-cased); if an entry with that MAC, compared without case,    *)
(* was stored, the first such entry is replaced in place and nothing else  *)
(* changes; otherwise the entry is appended at the end.                    *)
(***************************************************************************)
C2_AddOrUpdate ==
    \A p \in Workers :
        Served(p) /\ Canonical(req[p].raw) =>
            LET old == Entries(req[p].raw)
                new == Entry(Upper(req[p].mac), req[p].ip, req[p].name)
                hits == MacEntries(req[p].raw, req[p].mac)
            IN  IF hits # {}
                THEN req[p].staticlist = Join(ReplaceAt(old, MinOf(hits), new), TAB)
                ELSE req[p].staticlist = Join(Append(old, new), TAB)

\* no two entries of s carry the same MAC address
DistinctMacs(s) == \A m \in KnownMacs : Cardinality(MacEntries(s, m)) <= 1

(***************************************************************************)
(* C3  Identity uniqueness: if no two entries of the initially stored      *)
(* canonical list carry the same MAC address (compared without case), no   *)
(* two entries of the stored list do after any add/update or restore.      *)
(***************************************************************************)
C3_UniqueMacs == Canonical(nvram0) /\ DistinctMacs(nvram0) => DistinctMacs(nvram)

C5_RoundTrip ==
    cpc = "decoded" =>
        /\ Len(decoded) = Len(recs)
        /\ \A i \in 1..Len(recs) :
              decoded[i] = Rec(Upper(recs[i].mac), recs[i].ip, recs[i].name)

(***************************************************************************)
(* C6  Data-loss guard: the dhcp_staticlist of a command _add_reservation  *)
(* sends is never the empty string; a request that computes an empty list  *)
(* ends in the guard's error and sends nothing.                            *)
(***************************************************************************)
C6_NeverWritesEmpty ==
    \A p \in Workers :
        /\ Served(p) => req[p].staticlist # <<>>
        /\ req[p].pc \in {"send", "done", "error"} =>
              (req[p].pc = "error"
                  <=> UpdateRaw(req[p].raw, req[p].mac, req[p].ip, req[p].name) = <<>>)

\* a request that fetched the empty list has written
C6_Witness ==
    \E p \in Workers :
        req[p].pc = "done" /\ req[p].raw = <<>> /\ nvram = req[p].staticlist

\* the candidates of the server list that have no MAC
NoMac == {i \in 1..Len(servers) : servers[i].mac = <<>>}

Matches(r, s) == Lower(r.mac) = Lower(s.mac) \/ r.ip = s.ip

(***************************************************************************)
(* C8  Bulk restore is additive-only and order-preserving: the list it     *)
(* writes is the records the Decoder reads from the stored string,         *)
(* unchanged and in order, followed by added candidates in candidate-list  *)
(* order, none of which matches a stored record by mac (without case) or   *)
(* by ip.                                                                  *)
(***************************************************************************)
C8_AdditiveOnly ==
    Restored =>
        LET E == ParseStaticlist(rst.current_raw)
            R == rst.reservations
            cands == [i \in 1..Len(servers) |->
                        Rec(Upper(servers[i].mac), servers[i].ip, servers[i].name)]
        IN  /\ Len(R) >= Len(E)
            /\ SubSeq(R, 1, Len(E)) = E
            /\ IsSubseq(SubSeq(R, Len(E) + 1, Len(R)), cands)
            /\ \A k \in (Len(E) + 1)..Len(R) : \A j \in 1..Len(E) : ~Matches(E[j], R[k])

\* every entry of s has a non-empty first and second field
EntriesWellFormed(s) ==
    \A i \in 1..Len(Entries(s)) :
        LET parts == Split(Entries(s)[i], COLON)
        IN  Len(parts) >= 2 /\ Strip(parts[1]) # <<>> /\ Strip(parts[2]) # <<>>

(***************************************************************************)
(* C9  No reservation with an empty mac or an empty ip is persisted: every *)
(* tab-separated entry of a dhcp_staticlist string sent by the add/update  *)
(* or by the restore has a non-empty first field and a non-empty second    *)
(* field.                                                                  *)
(***************************************************************************)
C9_NoEmptyPersisted ==
    /\ \A p \in Workers : Served(p) => EntriesWellFormed(req[p].staticlist)
    /\ Restored => EntriesWellFormed(rst.staticlist)

(***************************************************************************)
(* C10  Read-modify-write atomicity: when two requests have added two      *)
(* different MAC addresses, neither stored before, to a canonical list,    *)
(* and no restore ran, the stored list holds the entries of both.          *)
(***************************************************************************)
C10_BothAdded ==
    ( /\ \A p \in Workers : req[p].pc = "done" /\ MacEntries(nvram0, req[p].mac) = {}
      /\ Canonical(nvram0)
      /\ rst.pc = "idle"
      /\ Upper(req[1].mac) # Upper(req[2].mac) )
    => \A p \in Workers :
          InStr(Entry(Upper(req[p].mac), req[p].ip, req[p].name), nvram)

(***************************************************************************)
(* C11  Failures are detected before any output: a request of the         *)
(* add/update, or a run of the restore, whose read of the stored list did  *)
(* not succeed (the call raised, or the answer held no dhcp_staticlist)    *)
(* never comes to send a command, so the stored list stays as it was.      *)
(***************************************************************************)
C11_NoWriteAfterFailedRead ==
    /\ \A p \in Workers :
          req[p].reply \in {"none", "raise"} => req[p].pc \notin {"send", "done"}
    /\ rst.reply \in {"none", "raise"} => rst.pc \notin {"send", "done"}

\* the records a <MAC>IP>name list of rs is to be read as
BracketRead(rs) == [i \in 1..Len(rs) |-> Rec(Upper(rs[i].mac), rs[i].ip, rs[i].name)]

\* the Decoder has run on a string holding '<', '>' and ':'
DecodedMixed ==
    /\ cpc = "decoded"
    /\ Contains(encoded, LT) /\ Contains(encoded, GT) /\ Contains(encoded, COLON)

(***************************************************************************)
(* C12  Decoder grammar priority: on a string holding '<', '>' and ':'     *)
(* the Decoder returns the records of the bracketed grammar whenever that  *)
(* grammar yields at least one, and the records of the colon grammar only  *)
(* when the bracketed grammar yields none; what it returns is the output   *)
(* of exactly one grammar.  A <MAC>IP>name list (such as                   *)
(* "<AA:BB:CC:DD:EE:FF>192.168.1.5>dns01") is read back as its records.    *)
(***************************************************************************)
C12_BracketFirst ==
    DecodedMixed =>
        /\ BracketRecords(encoded) # <<>> => decoded = BracketRecords(encoded)
        /\ BracketRecords(encoded) = <<>> => decoded = ColonRecords(encoded)
        /\ recs # <<>> => decoded = BracketRead(recs)

\* both grammars yield records, different ones, and the bracketed ones are returned
C12_Witness ==
    /\ DecodedMixed
    /\ encoded = RenderBracket(<<Rec(MacF, Ip1685, NameDns01)>>)
    /\ ColonRecords(encoded) # <<>>
    /\ ColonRecords(encoded) # BracketRecords(encoded)
    /\ decoded = <<Rec(MacF, Ip1685, NameDns01)>>

====
